---- MODULE Spec2Model ----
(***************************************************************************)
(* The scene model of src/src/editor-classes.tsx: the Node tree (parent /  *)
(* children, silent and non-silent mutation, change bubbling), the Model   *)
(* root (listeners, snapshot regeneration), the SelectionManager and the   *)
(* OptimizationManager (k-means router placement).                         *)
(*                                                                         *)
(* Every handler of the source is an operator from a machine state m (a    *)
(* record of all the program's fields) to the machine state it leaves,     *)
(* written statement by statement; an action applies one handler.  A       *)
(* JavaScript exception (RangeError of an unbounded recursion, TypeError   *)
(* of a reduce over an empty array) stops the handler where it is thrown:  *)
(* the assignments made before it stay, m.err names it.                    *)
(*                                                                         *)
(* Lengths are integers in units of 1/Scale (Scale = 2 * density), the     *)
(* grid on which Room.getPointCloud samples.  A position is <<x, y, z, d>>:*)
(* the vector (x/d, y/d, z/d), d >= 1, so that the mean of the update step *)
(* is exact; d = 0 is the vector of NaN that 0 * (1/0) gives.              *)
(***************************************************************************)
EXTENDS Integers, Sequences, FiniteSets, TLC

\* ---------------------------------------------------------------- bounds
MaxOps == 3          \* handler calls in one behaviour of Spec
MaxOptimize == 2     \* optimize calls in one behaviour of SpecOptimize
MaxRouters == 6      \* Router objects optimize may construct in one behaviour
MaxMade == 2         \* objects of one class fromJSON may construct in one behaviour

\* ----------------------------------------------------------------- nodes
NoNode == "none"
Model == "M"
Floors == {"F1", "F2"}
Rooms == {"R1", "R2", "R3"}
UserRouters == {"X1"}                 \* a Router constructed outside optimize
RouterNames == <<"T1", "T2", "T3", "T4", "T5", "T6", "T7", "T8">>
PoolRouters == {RouterNames[i] : i \in 1..MaxRouters}
\* The objects Node.fromJSON may construct, by class, in construction order
JsonPlain == <<"JN1", "JN2", "JN3">>
JsonModels == <<"JM1", "JM2", "JM3">>
JsonFloors == <<"JF1", "JF2", "JF3">>
JsonRooms == <<"JR1", "JR2", "JR3">>
JsonRouters == <<"JX1", "JX2", "JX3">>
JsonPool(name) ==
  IF name = "Node" THEN JsonPlain
  ELSE IF name = "Model" THEN JsonModels
  ELSE IF name = "Floor" THEN JsonFloors
  ELSE IF name = "Room" THEN JsonRooms
  ELSE JsonRouters
JsonNodes ==
  {JsonPool(name)[i] : name \in {"Node", "Model", "Floor", "Room", "Router"}, i \in 1..MaxMade}
Nodes ==
  {Model} \cup Floors \cup Rooms \cup UserRouters \cup PoolRouters \cup JsonNodes
Listeners == {"L1", "L2"}

\* Node.name of each class
Kind(n) ==
  IF n = Model \/ n \in {JsonModels[i] : i \in 1..MaxMade} THEN "Model"
  ELSE IF n \in Floors \/ n \in {JsonFloors[i] : i \in 1..MaxMade} THEN "Floor"
  ELSE IF n \in Rooms \/ n \in {JsonRooms[i] : i \in 1..MaxMade} THEN "Room"
  ELSE IF n \in {JsonPlain[i] : i \in 1..MaxMade} THEN "Node"
  ELSE "Router"

\* isObject: the classes that extend ObjectNode
IsObjectNode(n) == Kind(n) \in {"Floor", "Room"}

density == 2
Scale == 2 * density
iterCap == 10
strength == 45       \* Router.strength, the field initialiser; never assigned

NaNVec == <<0, 0, 0, 0>>
Origin == <<0, 0, 0, 1>>
UnitSize == <<1, 1, 1>>
IsNaN(p) == p[4] = 0

Range(s) == {s[i] : i \in 1..Len(s)}

\* Set.prototype.add / delete on a Set kept in insertion order
SetAdd(s, x) == IF x \in Range(s) THEN s ELSE Append(s, x)
SetDelete(s, x) == SelectSeq(s, LAMBDA y : y # x)

\* F(v), with v evaluated once: the next statement, run on the state v
Then(v, F(_)) == CHOOSE r \in {F(x) : x \in {v}} : TRUE

RECURSIVE Flat(_)
Flat(ss) == IF ss = <<>> THEN <<>> ELSE Head(ss) \o Flat(Tail(ss))

RECURSIVE Dedup(_)
Dedup(s) ==
  IF s = <<>> THEN <<>>
  ELSE SetAdd(Dedup(SubSeq(s, 1, Len(s) - 1)), s[Len(s)])

\* ----------------------------------------------------------------- state
VARIABLES
  parent,        \* Node.parent (NoNode: undefined)
  children,      \* Node.children, in insertion order
  position,      \* ObjectNode.position / Router.position
  size,          \* ObjectNode.size
  height,        \* Floor.height
  selected,      \* Node.selected
  points,        \* Router.points, in insertion order
  snapshot,      \* Model.snapshot
  listeners,     \* Model.listeners, in registration order
  smSelected,    \* SelectionManager.selected (the live node, or its source)
  smSelectedCopy,\* SelectionManager.selected is a node of a snapshot
  generated,     \* which object Model.snapshot is: the n-th generated, 0 undefined
  rooms,         \* OptimizationManager.rooms
  routers,       \* OptimizationManager.routers
  constructed,   \* how many Router objects optimize has constructed
  key,           \* Node.key
  made,          \* the objects Node.fromJSON has constructed
  jsonOutput,    \* what the last toJSON returned: <<>> or <<the JSON value>>
  jsonInputError,\* JSONConverter's JSONInputError: "" or the exception caught
  trace,         \* what the Model did during the last handler, in order
  err,           \* the exception the last handler threw, or "none"
  last,          \* the last handler called, with its arguments
  run,           \* the locals of the last optimize call
  ops            \* handler calls so far

vars == <<parent, children, position, size, height, selected, points, snapshot,
          listeners, smSelected, smSelectedCopy, generated, rooms, routers, constructed, key, made,
          jsonOutput, jsonInputError, trace, err, last, run, ops>>

St ==
  [parent |-> parent, children |-> children, position |-> position,
   size |-> size, height |-> height, selected |-> selected, points |-> points,
   snapshot |-> snapshot, listeners |-> listeners, smSelected |-> smSelected,
   smSelectedCopy |-> smSelectedCopy, generated |-> generated,
   rooms |-> rooms, routers |-> routers, constructed |-> constructed,
   key |-> key, made |-> made, jsonOutput |-> jsonOutput,
   jsonInputError |-> jsonInputError,
   trace |-> trace, err |-> err, last |-> last, run |-> run, ops |-> ops]

Apply(v) == \E m \in {v} :
  /\ parent' = m.parent
  /\ children' = m.children
  /\ position' = m.position
  /\ size' = m.size
  /\ height' = m.height
  /\ selected' = m.selected
  /\ points' = m.points
  /\ snapshot' = m.snapshot
  /\ listeners' = m.listeners
  /\ smSelected' = m.smSelected
  /\ smSelectedCopy' = m.smSelectedCopy
  /\ generated' = m.generated
  /\ rooms' = m.rooms
  /\ routers' = m.routers
  /\ constructed' = m.constructed
  /\ key' = m.key
  /\ made' = m.made
  /\ jsonOutput' = m.jsonOutput
  /\ jsonInputError' = m.jsonInputError
  /\ trace' = m.trace
  /\ err' = m.err
  /\ last' = m.last
  /\ run' = m.run
  /\ ops' = m.ops

\* op(a, b, silent) or optimize(k); changed: the call changes the value it sets
Call(op, a, b, silent, k) ==
  [op |-> op, a |-> a, b |-> b, silent |-> silent, k |-> k, changed |-> TRUE]
NoRun ==
  [observations |-> <<>>, rooms |-> <<>>, given |-> FALSE, k |-> 0,
   routerCount |-> 0, before |-> {}, iter |-> 0, stopped |-> 0,
   reassignments |-> 0, moved |-> 0, assigned |-> <<>>, means |-> <<>>, members |-> <<>>,
   snapped |-> 0, completed |-> FALSE, pointCount |-> 0, score |-> "none",
   quiet |-> 0]

\* A handler starts: nothing thrown, nothing done by the Model yet.
Begin(m, call) ==
  [m EXCEPT !.trace = <<>>, !.err = "none", !.last = call, !.ops = @ + 1]

Throw(m, e) == [m EXCEPT !.err = e]
Event(ev, l, fresh) == [ev |-> ev, l |-> l, fresh |-> fresh]
Emit(m, e) == [m EXCEPT !.trace = Append(@, e)]

\* --------------------------------------------------------- tree traversal
\* The node k parent links above n (NoNode past the top).
RECURSIVE Up(_, _, _)
Up(m, n, k) ==
  IF n = NoNode \/ k = 0 THEN n ELSE Up(m, m.parent[n], k - 1)

\* Following parent from n never ends: some node repeats.
ChainLoops(m, n) == Up(m, n, Cardinality(Nodes)) # NoNode
ChainReachesModel(m, n) == \E k \in 0..Cardinality(Nodes) : Up(m, n, k) = Model

RECURSIVE Closure(_, _)
Closure(m, S) ==
  LET T == S \cup UNION {Range(m.children[x]) : x \in S}
  IN IF T = S THEN S ELSE Closure(m, T)

\* The nodes below n: what the recursion over children visits.
Below(m, n) == Closure(m, Range(m.children[n]))

\* The recursion over children from n meets a node again below itself: in the
\* source it never returns (RangeError: Maximum call stack size exceeded).
Cyclic(m, n) == \E x \in Below(m, n) \cup {n} : x \in Below(m, x)

\* Node.getDescendants: the children's descendants, then this.
RECURSIVE getDescendants(_, _, _)
getDescendants(m, n, includeThis) ==
  LET kids == m.children[n]
      out == Flat([i \in 1..Len(kids) |-> getDescendants(m, kids[i], TRUE)])
  IN IF includeThis THEN Append(out, n) ELSE out

\* The first element of a sequence of nodes whose name is the one given
\* (Array.prototype.find), undefined (NoNode) when there is none.
find(seq, name) ==
  IF \E i \in 1..Len(seq) : Kind(seq[i]) = name
  THEN seq[CHOOSE i \in 1..Len(seq) :
             /\ Kind(seq[i]) = name
             /\ \A j \in 1..(i - 1) : Kind(seq[j]) # name]
  ELSE NoNode

\* Node.findFirstDescendant: this.getDescendants(true).find(n => n.name === name);
\* the value returned is recorded in last.b
findFirstDescendant(m, n, name) ==
  IF m.err # "none" THEN m
  ELSE IF Cyclic(m, n) THEN Throw(m, "RangeError")
  ELSE [m EXCEPT !.last.b = find(getDescendants(m, n, TRUE), name)]

\* the parent links from p up to the first node of the name given, the top
\* (NoNode) or, after as many links as there are nodes, a node met before
RECURSIVE climb(_, _, _, _)
climb(m, p, name, fuel) ==
  IF p = NoNode \/ fuel = 0 THEN p
  ELSE IF Kind(p) = name THEN p
  ELSE climb(m, m.parent[p], name, fuel - 1)

\* Node.findFirstAncestor: let parent = this.parent; while (parent) { if
\* (parent.name === name) return parent; parent = parent.parent }.  On a loop
\* of parent links with no node of the name the while never ends.
findFirstAncestor(m, n, name) ==
  IF m.err # "none" THEN m
  ELSE IF /\ ChainLoops(m, n)
          /\ \A k \in 1..Cardinality(Nodes) : Kind(Up(m, n, k)) # name
       THEN Throw(m, "NoReturn")
  ELSE [m EXCEPT !.last.b = climb(m, m.parent[n], name, Cardinality(Nodes))]

\* --------------------------------------------------------------- snapshot
NoSnapshot ==
  [source |-> NoNode, kind |-> "none", position |-> Origin, size |-> UnitSize,
   height |-> 0, selected |-> FALSE, points |-> <<>>, strength |-> 0,
   children |-> <<>>]

\* Floor.getArgs: { height: this.position.y || this.height }
FloorArgsHeight(m, n) ==
  IF IsNaN(m.position[n]) \/ m.position[n][2] = 0
  THEN m.height[n] ELSE m.position[n][2]

\* Node.clone: new (this.constructor)(this.getArgs()), selected copied.  The
\* constructor gives every field getArgs does not carry its default.
clone(m, n) ==
  [source |-> n,
   kind |-> Kind(n),
   position |-> IF Kind(n) \in {"Room", "Router"} THEN m.position[n] ELSE Origin,
   size |-> IF Kind(n) = "Room" THEN m.size[n] ELSE UnitSize,
   height |-> IF Kind(n) = "Floor" THEN FloorArgsHeight(m, n) ELSE 0,
   selected |-> m.selected[n],
   points |-> <<>>,
   strength |-> IF Kind(n) = "Router" THEN strength ELSE 0,
   children |-> <<>>]

\* Node.generateSnapshot
RECURSIVE generateSnapshot(_, _)
generateSnapshot(m, n) ==
  LET kids == m.children[n]
  IN [clone(m, n) EXCEPT
        !.children = [i \in 1..Len(kids) |-> generateSnapshot(m, kids[i])]]

\* The nodes of a snapshot tree.
RECURSIVE SnapNodes(_)
SnapNodes(s) ==
  {s} \cup UNION {SnapNodes(s.children[i]) : i \in 1..Len(s.children)}

\* The places of a snapshot tree: the child indices from its root to a node
RECURSIVE SnapPaths(_)
SnapPaths(s) ==
  {<<>>} \cup UNION {{<<i>> \o q : q \in SnapPaths(s.children[i])} :
                     i \in 1..Len(s.children)}

RECURSIVE SnapAt(_, _)
SnapAt(s, q) == IF q = <<>> THEN s ELSE SnapAt(s.children[Head(q)], Tail(q))

\* The snapshot tree s after an assignment to fields of its node at q.
RECURSIVE SnapWith(_, _, _)
SnapWith(s, q, node) ==
  IF q = <<>> THEN node
  ELSE [s EXCEPT !.children[Head(q)] = SnapWith(@, Tail(q), node)]

\* A Node object: the live node n (source === this), or the node at q of the
\* Model's snapshot (source: the live node it was generated from).
LiveNode(n) == [source |-> n, copy |-> FALSE, path |-> <<>>]
CopyNode(m, q) == [source |-> SnapAt(m.snapshot, q).source, copy |-> TRUE, path |-> q]

\* The snapshot node s mirrors the live node n of m: same kind, the kind's
\* attributes equal, source = n, and its children mirror n's children one to one.
RECURSIVE Mirrors(_, _, _)
Mirrors(s, m, n) ==
  /\ s.source = n
  /\ s.kind = Kind(n)
  /\ Kind(n) = "Floor" => s.height = m.height[n]
  /\ Kind(n) = "Room" => s.position = m.position[n] /\ s.size = m.size[n]
  /\ Kind(n) = "Router" => s.position = m.position[n]
  /\ Len(s.children) = Len(m.children[n])
  /\ {s.children[i].source : i \in 1..Len(s.children)} = Range(m.children[n])
  /\ \A i \in 1..Len(s.children) : Mirrors(s.children[i], m, s.children[i].source)

\* ------------------------------------------------------------------ Model
\* OptimizationManager.onHeirarchyChange
omOnHeirarchyChange(m) ==
  IF m.err # "none" THEN m
  ELSE IF Cyclic(m, Model) THEN Throw(m, "RangeError")
  ELSE Emit([m EXCEPT !.rooms =
               Dedup(SelectSeq(getDescendants(m, Model, TRUE),
                               LAMBDA n : Kind(n) = "Room"))],
            Event("refresh", "", FALSE))

\* Model.generateSnapshot
modelGenerateSnapshot(m) ==
  IF m.err # "none" THEN m
  ELSE IF Cyclic(m, Model) THEN Throw(m, "RangeError")
  ELSE Emit([m EXCEPT !.snapshot = generateSnapshot(m, Model),
                      !.generated = @ + 1],
            Event("snapshot", "", FALSE))

\* this.listeners.forEach(l => l()): a listener reads getSnapshot(); the event
\* records whether what it reads mirrors the live tree as it is then.
RECURSIVE callListeners(_, _)
callListeners(m, ls) ==
  IF ls = <<>> THEN m
  ELSE callListeners(
         Emit(m, Event("listener", Head(ls),
                       m.snapshot.source = Model /\ Mirrors(m.snapshot, m, Model))),
         Tail(ls))

\* reRender with the listeners called before the snapshot is regenerated
reRenderListenersFirst(m) ==
  IF m.err # "none" THEN m
  ELSE modelGenerateSnapshot(callListeners(m, m.listeners))

\* Model.reRender
reRender(m) ==
  IF m.err # "none" THEN m
  ELSE LET m1 == modelGenerateSnapshot(m)
       IN IF m1.err # "none" THEN m1 ELSE callListeners(m1, m1.listeners)

\* Model.onHeirarchyChange, after super.onHeirarchyChange() has returned
modelOnHeirarchyChange(m) == reRender(omOnHeirarchyChange(m))

\* Node.onHeirarchyChange called on n: each node forwards to its parent; the
\* Model forwards first and acts when the forwarding has returned.
onHeirarchyChange(m, n) ==
  IF m.err # "none" THEN m
  ELSE IF ChainLoops(m, n) THEN Throw(m, "RangeError")
  ELSE IF ChainReachesModel(m, n) THEN modelOnHeirarchyChange(m)
  ELSE m

\* getSnapshot re-rendering, listeners and all, when no snapshot exists
getSnapshotNotifying(m) ==
  IF m.generated # 0 THEN m ELSE reRender(m)

\* Model.getSnapshot: this.snapshot || this.generateSnapshot()
getSnapshot(m) ==
  IF m.generated # 0 THEN m ELSE modelGenerateSnapshot(m)

\* Model.subscribe and the function it returns
subscribe(m, l) == [m EXCEPT !.listeners = SetAdd(@, l)]
unsubscribe(m, l) == [m EXCEPT !.listeners = SetDelete(@, l)]

\* ------------------------------------------------------------------- Node
\* Node.add
add(m, p, c, silent) ==
  IF m.err # "none" THEN m
  ELSE LET m1 == [m EXCEPT !.children[p] = SetAdd(@, c), !.parent[c] = p]
       IN IF silent THEN m1 ELSE onHeirarchyChange(m1, p)

\* Node.remove
remove(m, p, c, silent) ==
  IF m.err # "none" THEN m
  ELSE LET m1 == [m EXCEPT !.children[p] = SetDelete(@, c), !.parent[c] = NoNode]
       IN IF silent THEN m1 ELSE onHeirarchyChange(m1, p)

\* Node.deleteSelf: this.parent?.remove(this), then the notification that the
\* cleared parent reference never lets through.
deleteSelf(m, n, silent) ==
  IF m.err # "none" THEN m
  ELSE LET m1 == IF m.parent[n] # NoNode THEN remove(m, m.parent[n], n, FALSE) ELSE m
       IN IF m1.err = "none" /\ m1.parent[n] # NoNode /\ ~silent
          THEN onHeirarchyChange(m1, n) ELSE m1

\* Node.addTo
addTo(m, c, p, silent) == add(m, p, c, silent)

RECURSIVE removeAll(_, _, _)
removeAll(m, p, cs) ==
  IF cs = <<>> THEN m ELSE removeAll(remove(m, p, Head(cs), TRUE), p, Tail(cs))

RECURSIVE addAll(_, _, _)
addAll(m, p, cs) ==
  IF cs = <<>> THEN m ELSE addAll(add(m, p, Head(cs), TRUE), p, Tail(cs))

\* Node.replace
replace(m, n, node) ==
  LET m1 == removeAll(m, n, m.children[n])
      m2 == addAll(m1, n, m1.children[node])
  IN onHeirarchyChange(m2, n)

\* ObjectNode.setPosition, Floor.setPosition, Router.setPosition on a live node
setPosition(m, n, p, silent) ==
  IF m.err # "none" THEN m
  ELSE LET m1 == [m EXCEPT !.position[n] = p,
                           !.height[n] = IF Kind(n) = "Floor" THEN p[2] ELSE @]
       IN IF silent THEN m1 ELSE onHeirarchyChange(m1, n)

\* ObjectNode.setSize
setSize(m, n, s, silent) ==
  IF m.err # "none" \/ m.size[n] = s THEN m
  ELSE LET m1 == [m EXCEPT !.size[n] = s]
       IN IF silent THEN m1 ELSE onHeirarchyChange(m1, n)

\* ObjectNode.setSize called on the node at q of the snapshot: this.size is
\* the copy's; the notification climbs the copies' parents to the copy of the
\* Model, which warns and re-renders itself, a Model without listeners.
snapshotSetSize(m, q, s, silent) ==
  IF m.err # "none" \/ SnapAt(m.snapshot, q).size = s THEN m
  ELSE [m EXCEPT !.snapshot =
          SnapWith(@, q, [SnapAt(@, q) EXCEPT !.size = s])]

\* setPosition called on the node at q of the snapshot.  ObjectNode: the
\* position of this.source; Floor: this.height first, the copy's; Router:
\* this.position, the copy's.  The live Model is not notified.
snapshotSetPosition(m, q, p, silent) ==
  LET c == SnapAt(m.snapshot, q)
  IN IF m.err # "none" THEN m
     ELSE IF c.kind = "Floor"
     THEN [m EXCEPT !.snapshot = SnapWith(@, q, [c EXCEPT !.height = p[2]]),
                    !.position[c.source] = p]
     ELSE IF c.kind = "Room" THEN [m EXCEPT !.position[c.source] = p]
     ELSE [m EXCEPT !.snapshot = SnapWith(@, q, [c EXCEPT !.position = p])]

\* -------------------------------------------------------------- JSON
\* An args object is a sequence of <<name, value>> pairs.  Arg is the
\* destructuring of a constructor parameter: the value given, or the default.
HasArg(args, name) == \E i \in 1..Len(args) : args[i][1] = name
Arg(args, name, default) ==
  IF HasArg(args, name)
  THEN args[CHOOSE i \in 1..Len(args) : args[i][1] = name][2]
  ELSE default

\* getArgs as Node has it, on every class: the key alone
getArgsOfNode(m, n) == <<<<"key", m.key[n]>>>>

\* getArgs of Node / Model, Floor, Room, Router
getArgs(m, n) ==
  IF Kind(n) = "Floor"
  THEN <<<<"height", FloorArgsHeight(m, n)>>, <<"key", m.key[n]>>>>
  ELSE IF Kind(n) = "Room"
  THEN <<<<"key", m.key[n]>>, <<"position", m.position[n]>>, <<"size", m.size[n]>>>>
  ELSE IF Kind(n) = "Router"
  THEN <<<<"key", m.key[n]>>, <<"position", m.position[n]>>>>
  ELSE <<<<"key", m.key[n]>>>>

\* Node.toJSON, on a tree the recursion over children ends on
RECURSIVE toJSON(_, _)
toJSON(m, n) ==
  LET kids == m.children[n]
  IN [name |-> Kind(n), args |-> getArgs(m, n),
      children |-> [i \in 1..Len(kids) |-> toJSON(m, kids[i])]]

\* Model.toJSON called through the API: the recursion over children never
\* returns on a cycle.
modelToJSON(m) ==
  IF m.err # "none" THEN m
  ELSE IF Cyclic(m, Model) THEN Throw(m, "RangeError")
  ELSE [m EXCEPT !.jsonOutput = <<toJSON(m, Model)>>]

\* The names fromJSONDictionary has a constructor for
Registered == {"Node", "Model", "Floor", "Room", "Router"}

\* The object the next new of class name gives.
NextMade(m, name) ==
  JsonPool(name)[CHOOSE i \in 1..MaxMade :
                   /\ JsonPool(name)[i] \notin m.made
                   /\ \A j \in 1..(i - 1) : JsonPool(name)[j] \in m.made]

\* fromJSONDictionary[name](args): the constructors of Node, Model, Floor,
\* Room and Router, each parameter the value given or its default.
construct(m, name, args) ==
  LET out == NextMade(m, name)
  IN [m EXCEPT !.made = @ \cup {out},
               !.key[out] = Arg(args, "key", out),
               !.position[out] = IF name \in {"Room", "Router"}
                                 THEN Arg(args, "position", Origin) ELSE Origin,
               !.size[out] = IF name = "Room" THEN Arg(args, "size", UnitSize)
                             ELSE UnitSize,
               !.height[out] = IF name = "Floor" THEN Arg(args, "height", 0) ELSE 0,
               !.selected[out] = FALSE,
               !.parent[out] = NoNode,
               !.children[out] = <<>>,
               !.points[out] = <<>>]

\* Node.fromJSON: [m |-> the state left, out |-> the node returned].  Calling
\* an entry the dictionary does not have is a TypeError; the children are
\* built and added in the order listed, and the first exception leaves the
\* call with what was built so far unreferenced.
RECURSIVE fromJSON(_, _)
RECURSIVE fromJSONChildren(_, _, _, _)
fromJSONChildren(m, out, cs, i) ==
  IF m.err # "none" \/ i > Len(cs) THEN m
  ELSE Then(fromJSON(m, cs[i]), LAMBDA r :
         IF r.m.err # "none" THEN r.m
         ELSE fromJSONChildren(add(r.m, out, r.out, FALSE), out, cs, i + 1))

fromJSON(m, json) ==
  IF m.err # "none" THEN [m |-> m, out |-> NoNode]
  ELSE IF json.name \notin Registered
  THEN [m |-> Throw(m, "TypeError"), out |-> NoNode]
  ELSE LET out == NextMade(m, json.name)
       IN [m |-> fromJSONChildren(construct(m, json.name, json.args), out,
                                  json.children, 1),
           out |-> out]

\* A text of the JSON input field: JSON.parse throws a SyntaxError on it or
\* returns value.
Text(parses, value) == [parses |-> parses, value |-> value]

\* JSONConverter's submit handler with the parsing and building done on the
\* way, after the live children are dropped.
loadDroppingFirst(m, text) ==
  LET m0 == removeAll(m, Model, m.children[Model])
  IN IF ~text.parses THEN [m0 EXCEPT !.jsonInputError = "SyntaxError"]
     ELSE Then(fromJSON(m0, text.value), LAMBDA r :
            Then(IF r.m.err # "none" THEN r.m
                 ELSE onHeirarchyChange(addAll(r.m, Model, r.m.children[r.out]), Model),
                 LAMBDA m2 : [m2 EXCEPT !.jsonInputError = m2.err, !.err = "none"]))

\* JSONConverter.fromJSON, the submit handler: try { JSON.parse; Node.fromJSON;
\* myModel.replace; setJSONInputError('') } catch (e) { setJSONInputError(e) }
loadJSON(m, text) ==
  IF ~text.parses THEN [m EXCEPT !.jsonInputError = "SyntaxError"]
  ELSE Then(fromJSON(m, text.value), LAMBDA r :
         Then(IF r.m.err # "none" THEN r.m ELSE replace(r.m, Model, r.out),
              LAMBDA m2 :
                IF m2.err # "none"
                THEN [m2 EXCEPT !.jsonInputError = m2.err, !.err = "none"]
                ELSE [m2 EXCEPT !.jsonInputError = ""]))

\* The tree at a has the shape, kinds and attributes of the tree at b.
RECURSIVE SameTree(_, _, _)
SameTree(m, a, b) ==
  /\ Kind(a) = Kind(b)
  /\ Kind(b) = "Floor" => m.height[a] = m.height[b]
  /\ Kind(b) = "Room" =>
       m.position[a] = m.position[b] /\ m.size[a] = m.size[b]
  /\ Kind(b) = "Router" => m.position[a] = m.position[b]
  /\ Len(m.children[a]) = Len(m.children[b])
  /\ \A i \in 1..Len(m.children[a]) :
       SameTree(m, m.children[a][i], m.children[b][i])

\* ------------------------------------------------------- SelectionManager
\* SelectionManager.unselect
unselect(m) ==
  IF m.smSelected # NoNode
  THEN [m EXCEPT !.selected[m.smSelected] = IF m.smSelectedCopy THEN @ ELSE FALSE,
                 !.smSelected = NoNode, !.smSelectedCopy = FALSE]
  ELSE m

\* this.selected = node; node.selected = true; node.onSelectionChange(true)
mark(m, node) ==
  IF node.copy
  THEN [m EXCEPT !.smSelected = node.source, !.smSelectedCopy = TRUE,
                 !.snapshot = SnapWith(@, node.path,
                                       [SnapAt(@, node.path) EXCEPT !.selected = TRUE])]
  ELSE [m EXCEPT !.smSelected = node.source, !.smSelectedCopy = FALSE,
                 !.selected[node.source] = TRUE]

\* if (node.source !== node) node = node.source
resolve(node) == IF node.copy THEN LiveNode(node.source) ELSE node

\* select without the unselect of the node selected before
selectKeepOld(m, node) == reRender(mark(m, resolve(node)))

\* select without the step from a snapshot node to its source
selectUnresolved(m, node) ==
  LET m1 == IF m.smSelected # NoNode THEN unselect(m) ELSE m
  IN reRender(mark(m1, node))

\* SelectionManager.select
select(m, node) ==
  LET m1 == IF m.smSelected # NoNode THEN unselect(m) ELSE m
  IN reRender(mark(m1, resolve(node)))

\* SelectionManager.isSelected: node === this.selected ||
\* node.key === this.selected?.key.  A snapshot node has the key of its
\* source (clone passes getArgs to the constructor).
isSelected(m, node) ==
  /\ m.smSelected # NoNode
  /\ \/ node.source = m.smSelected /\ node.copy = m.smSelectedCopy /\ ~node.copy
     \/ m.key[node.source] = m.key[m.smSelected]

\* ---------------------------------------------------- OptimizationManager
\* Room.getPointCloud: the grid x, y, z = 0, step, 2 step, ... below the size,
\* from the corner tucked in by 1/(2 density); the centre too when a size
\* component is even.
getPointCloud(m, r) ==
  LET pos == m.position[r]
      s == m.size[r]
      cnt(i) == IF s[i] > 0 THEN s[i] * density ELSE 0
      corner(i) == pos[i] - s[i] * density + 1
      step == Scale \div density
      total == cnt(1) * cnt(2) * cnt(3)
      grid == [j \in 1..total |->
                 <<corner(1) + step * ((j - 1) \div (cnt(2) * cnt(3))),
                   corner(2) + step * (((j - 1) \div cnt(3)) % cnt(2)),
                   corner(3) + step * ((j - 1) % cnt(3))>>]
      isEven(n) == n % 2 = 0
  IN IF isEven(s[1]) \/ isEven(s[2]) \/ isEven(s[3])
     THEN Append(grid, <<pos[1], pos[2], pos[3]>>) ELSE grid

\* Vector3.distanceTo(o), squared and times p[4]^2, for a position p
Dist2(p, o) ==
  (p[1] - p[4] * o[1]) * (p[1] - p[4] * o[1])
  + (p[2] - p[4] * o[2]) * (p[2] - p[4] * o[2])
  + (p[3] - p[4] * o[3]) * (p[3] - p[4] * o[3])

\* a.distanceTo(o) < b.distanceTo(o); a comparison with NaN is false
Closer(a, b, o) ==
  /\ ~IsNaN(a)
  /\ ~IsNaN(b)
  /\ Dist2(a, o) * b[4] * b[4] < Dist2(b, o) * a[4] * a[4]

\* Array.from(this.routers).reduce((best, current) => ...), routers not empty
RECURSIVE closestRouter(_, _, _, _)
closestRouter(m, best, rest, o) ==
  IF rest = <<>> THEN best
  ELSE closestRouter(
         m,
         IF Closer(m.position[Head(rest)], m.position[best], o)
         THEN Head(rest) ELSE best,
         Tail(rest), o)

Obs(i, o) == [id |-> i, at |-> o]

\* assign without router?.points.delete(o): a reassigned observation stays
\* in the set of the router it leaves
releasedNone(ps, gone) == ps

\* router.points.delete(o) for the observations that leave a router
released(ps, gone) == SelectSeq(ps, LAMBDA o : o.id \notin gone)

\* closest.points.add(o) for the observations that join a router, in order
joined(ps, coming) == ps \o SelectSeq(coming, LAMBDA o : o \notin Range(ps))

\* the effect of assign's forEach, given the closest router of every observation
reassign(m, closest) ==
  LET obs == m.run.observations
      was == m.run.assigned
      changed(i) == was[i] # closest[i]
      leaving(r) == {i \in DOMAIN obs : changed(i) /\ was[i] = r}
      coming(r) == SelectSeq([i \in DOMAIN obs |-> Obs(i, obs[i])],
                             LAMBDA o : changed(o.id) /\ closest[o.id] = r)
  IN [m EXCEPT
        !.points = [r \in Nodes |->
                      joined(released(m.points[r], leaving(r)), coming(r))],
        !.run.assigned = closest,
        !.run.reassignments = @ + Cardinality({i \in DOMAIN obs : changed(i)}),
        !.run.moved = @ + Cardinality({i \in DOMAIN obs :
                                         changed(i) /\ was[i] # NoNode})]

\* assign: observations.forEach(o => { closest = routers.reduce(...);
\* if (router !== closest) { reassignments++; router?.points.delete(o);
\* closest.points.add(o); assigned.set(o, closest) } }).  No router moves
\* during the loop, so the closest router of every observation is fixed and
\* the loop's effect is computed for all observations at once.
assign(m) ==
  IF m.err # "none" \/ m.run.observations = <<>> THEN m
  ELSE IF m.routers = <<>> THEN Throw(m, "TypeError")
  ELSE Then([i \in DOMAIN m.run.observations |->
               closestRouter(m, Head(m.routers), Tail(m.routers),
                             m.run.observations[i])],
            LAMBDA closest : reassign(m, closest))

\* r.points.forEach(p => sum.add(p)), summed by halves
RECURSIVE SumPoints(_)
SumPoints(ps) ==
  IF ps = <<>> THEN <<0, 0, 0>>
  ELSE IF Len(ps) = 1 THEN ps[1].at
  ELSE LET half == Len(ps) \div 2
           a == SumPoints(SubSeq(ps, 1, half))
           b == SumPoints(SubSeq(ps, half + 1, Len(ps)))
       IN <<a[1] + b[1], a[2] + b[2], a[3] + b[3]>>

\* sum.divideScalar(r.points.size): NaN in every component when the set is empty
Mean(ps) ==
  LET sum == SumPoints(ps)
  IN IF ps = <<>> THEN NaNVec ELSE <<sum[1], sum[2], sum[3], Len(ps)>>

\* the update step: r.setPosition(mean, true) for every router
RECURSIVE update(_, _)
update(m, rs) ==
  IF rs = <<>> \/ m.err # "none" THEN m
  ELSE Then(setPosition(m, Head(rs), Mean(m.points[Head(rs)]), TRUE),
            LAMBDA m1 : update(m1, Tail(rs)))

\* one round and no more: iter++; reassignments = 0; assign(); update
lloydOnce(m) ==
  Then([m EXCEPT !.run.iter = @ + 1, !.run.reassignments = 0], LAMBDA m0 :
  Then(assign(m0), LAMBDA m1 : update(m1, m1.routers)))

\* do { iter++; reassignments = 0; assign(); update } while (iter < 10 && reassignments > 0)
\* run.quiet counts the rounds whose assignment step made no reassignment
RECURSIVE lloyd(_)
lloyd(m) ==
  Then([m EXCEPT !.run.iter = @ + 1, !.run.reassignments = 0], LAMBDA m0 :
  Then(assign(m0), LAMBDA ma :
  Then(IF ma.err = "none" /\ ma.run.reassignments = 0
       THEN [ma EXCEPT !.run.quiet = @ + 1] ELSE ma, LAMBDA m1 :
  Then(update(m1, m1.routers), LAMBDA m2 :
    IF m2.err # "none" THEN m2
    ELSE IF m2.run.iter < iterCap /\ m2.run.reassignments > 0 THEN lloyd(m2)
    ELSE m2))))

\* the reduce with <= for <: the last of the closest points
closestPointLast(p, ps) ==
  IF IsNaN(p) THEN ps[Len(ps)]
  ELSE ps[CHOOSE i \in 1..Len(ps) :
            /\ \A j \in 1..Len(ps) : Dist2(p, ps[i].at) <= Dist2(p, ps[j].at)
            /\ \A j \in (i + 1)..Len(ps) : Dist2(p, ps[i].at) < Dist2(p, ps[j].at)]

\* Array.from(r.points).reduce((best, current) => ...), points not empty: the
\* first point no later point is strictly closer than; every comparison with
\* a NaN position is false, so the first point stays the best
closestPoint(p, ps) ==
  IF IsNaN(p) THEN ps[1]
  ELSE ps[CHOOSE i \in 1..Len(ps) :
            /\ \A j \in 1..Len(ps) : Dist2(p, ps[i].at) <= Dist2(p, ps[j].at)
            /\ \A j \in 1..(i - 1) : Dist2(p, ps[i].at) < Dist2(p, ps[j].at)]

\* the snap: r.source.setPosition(closest), not silent, for every router
RECURSIVE snap(_, _)
snap(m, rs) ==
  IF rs = <<>> \/ m.err # "none" THEN m
  ELSE LET r == Head(rs)
           ps == m.points[r]
       IN IF ps = <<>> THEN Throw(m, "TypeError")
          ELSE Then(closestPoint(m.position[r], ps).at, LAMBDA c :
               Then(setPosition(m, r, <<c[1], c[2], c[3], 1>>, FALSE), LAMBDA m1 :
                 snap([m1 EXCEPT !.run.snapped = @ + 1], Tail(rs))))

\* this.routers.forEach(r => r.deleteSelf())
RECURSIVE dispose(_, _)
dispose(m, rs) ==
  IF rs = <<>> \/ m.err # "none" THEN m
  ELSE Then(deleteSelf(m, Head(rs), FALSE), LAMBDA m1 : dispose(m1, Tail(rs)))

\* seeding that starts from the room after the last one a Router was seeded at
RECURSIVE seedByCount(_, _)
seedByCount(m, i) ==
  IF i > m.run.routerCount \/ m.err # "none" THEN m
  ELSE LET r == RouterNames[m.constructed + 1]
           m1 == [m EXCEPT !.constructed = @ + 1,
                           !.position[r] =
                             m.position[m.run.rooms[(m.constructed % Len(m.run.rooms)) + 1]],
                           !.points[r] = <<>>]
       IN Then(addTo(m1, r, Model, FALSE), LAMBDA m2 :
            seedByCount([m2 EXCEPT !.routers = SetAdd(@, r)], i + 1))

\* this.routers.add(new Router({ position: rooms[i].position }).addTo(this.model)),
\* for i < routerCount; i counts from 1 here
RECURSIVE seed(_, _)
seed(m, i) ==
  IF i > m.run.routerCount \/ m.err # "none" THEN m
  ELSE LET r == RouterNames[m.constructed + 1]
           m1 == [m EXCEPT !.constructed = @ + 1,
                           !.position[r] = m.position[m.run.rooms[i]],
                           !.points[r] = <<>>]
       IN Then(addTo(m1, r, Model, FALSE), LAMBDA m2 :
            seed([m2 EXCEPT !.routers = SetAdd(@, r)], i + 1))

RECURSIVE CountPoints(_, _)
CountPoints(m, rs) ==
  IF rs = <<>> THEN 0 ELSE Len(m.points[Head(rs)]) + CountPoints(m, Tail(rs))

\* OptimizationManager.getScore: sumOfStrengths / pointCount, NaN for 0 / 0
getScore(m) == IF CountPoints(m, m.routers) = 0 THEN "NaN" ELSE "number"

\* The Router nodes the recursion over children reaches from the Model.
RoutersInTree(m) == {n \in Below(m, Model) : Kind(n) = "Router"}

\* OptimizationManager.optimize(routerCount); given = FALSE: argument omitted
optimize(m, given, k) ==
  LET rs == m.rooms
      observations == Flat([i \in 1..Len(rs) |-> getPointCloud(m, rs[i])])
      routerCount == IF ~given \/ k > Len(rs) THEN Len(rs) ELSE k
  IN
  Then([m EXCEPT !.run =
          [NoRun EXCEPT !.observations = observations, !.rooms = rs,
                        !.given = given, !.k = k, !.routerCount = routerCount,
                        !.before = RoutersInTree(m),
                        !.assigned = [i \in 1..Len(observations) |-> NoNode]]],
       LAMBDA m0 :
  Then(dispose(m0, m0.routers), LAMBDA m1 :
  Then(seed([m1 EXCEPT !.routers = IF m1.err = "none" THEN <<>> ELSE @], 1),
       LAMBDA m2 :
  Then(IF m2.err # "none" THEN m2 ELSE lloyd(m2), LAMBDA m3 :
  Then([m3 EXCEPT
          !.run.means = [i \in 1..Len(m3.routers) |-> m3.position[m3.routers[i]]],
          !.run.members = [i \in 1..Len(m3.routers) |-> m3.points[m3.routers[i]]],
          !.run.stopped = m3.run.reassignments],
       LAMBDA m4 :
  Then(snap(m4, m4.routers), LAMBDA m5 :
  Then(assign(m5), LAMBDA m6 :
    IF m6.err # "none" THEN m6
    ELSE [m6 EXCEPT !.run.completed = TRUE,
                    !.run.pointCount = CountPoints(m6, m6.routers),
                    !.run.score = getScore(m6)])))))))

\* ------------------------------------------------------------ construction
\* The objects as their constructors leave them.  F2 is new Floor({ height: 1 }),
\* R3 is new Room({ position: [2, 0, 2] }), the others take the defaults.
Constructed ==
  [parent |-> [n \in Nodes |-> NoNode],
   children |-> [n \in Nodes |-> <<>>],
   position |-> [n \in Nodes |-> IF n = "R3" THEN <<2 * Scale, 0, 2 * Scale, 1>> ELSE Origin],
   size |-> [n \in Nodes |-> UnitSize],
   height |-> [n \in Nodes |-> IF n = "F2" THEN Scale ELSE 0],
   selected |-> [n \in Nodes |-> FALSE],
   points |-> [n \in Nodes |-> <<>>],
   snapshot |-> NoSnapshot,
   listeners |-> <<>>,
   smSelected |-> NoNode,
   smSelectedCopy |-> FALSE,
   generated |-> 0,
   rooms |-> <<>>,
   routers |-> <<>>,
   constructed |-> 0,
   key |-> [n \in Nodes |-> n],
   made |-> {},
   jsonOutput |-> <<>>,
   jsonInputError |-> "",
   trace |-> <<>>,
   err |-> "none",
   last |-> Call("new", NoNode, NoNode, FALSE, 0),
   run |-> NoRun,
   ops |-> 0]

\* myModel.add(myFloor); myFloor.add(myRoom1)
Loaded == add(add(Constructed, Model, "F1", FALSE), "F1", "R1", FALSE)

Fresh(m) ==
  [m EXCEPT !.trace = <<>>, !.err = "none", !.ops = 0,
            !.last = Call("new", NoNode, NoNode, FALSE, 0)]

Is(v) == \E m \in {v} :
  /\ parent = m.parent
  /\ children = m.children
  /\ position = m.position
  /\ size = m.size
  /\ height = m.height
  /\ selected = m.selected
  /\ points = m.points
  /\ snapshot = m.snapshot
  /\ listeners = m.listeners
  /\ smSelected = m.smSelected
  /\ smSelectedCopy = m.smSelectedCopy
  /\ generated = m.generated
  /\ rooms = m.rooms
  /\ routers = m.routers
  /\ constructed = m.constructed
  /\ key = m.key
  /\ made = m.made
  /\ jsonOutput = m.jsonOutput
  /\ jsonInputError = m.jsonInputError
  /\ trace = m.trace
  /\ err = m.err
  /\ last = m.last
  /\ run = m.run
  /\ ops = m.ops

\* ----------------------------------------------------- the node API (Spec)
\* The objects the calls of Spec are made on, and the vectors they are given.
TreeNodes == {Model, "F1", "F2", "R1", "R2"}
PosInputs == {Origin, <<Scale, Scale, 0, 1>>}
SizeInputs == {UnitSize, <<0, 0, 0>>}

Init == Is(Fresh(Loaded))

Add ==
  \E p \in TreeNodes, c \in TreeNodes \ {Model}, silent \in BOOLEAN :
    /\ ops < MaxOps
    /\ p # c
    /\ Apply(add(Begin(St, Call("add", p, c, silent, 0)), p, c, silent))

Remove ==
  \E p \in TreeNodes, c \in TreeNodes \ {Model}, silent \in BOOLEAN :
    /\ ops < MaxOps
    /\ Apply(remove(Begin(St, Call("remove", p, c, silent, 0)), p, c, silent))

DeleteSelf ==
  \E n \in TreeNodes, silent \in BOOLEAN :
    /\ ops < MaxOps
    /\ Apply(deleteSelf(Begin(St, Call("deleteSelf", n, parent[n], silent, 0)), n, silent))

Replace ==
  \E node \in TreeNodes \ {Model} :
    /\ ops < MaxOps
    /\ Apply(replace(Begin(St, Call("replace", Model, node, FALSE, 0)), Model, node))

SetPosition ==
  \E n \in TreeNodes \ {Model}, p \in PosInputs, silent \in BOOLEAN :
    /\ ops < MaxOps
    /\ Apply(setPosition(Begin(St, Call("setPosition", n, NoNode, silent, 0)), n, p, silent))

SetSize ==
  \E n \in {x \in TreeNodes : IsObjectNode(x)}, s \in SizeInputs, silent \in BOOLEAN :
    /\ ops < MaxOps
    /\ Apply(setSize(Begin(St, [Call("setSize", n, NoNode, silent, 0)
                                   EXCEPT !.changed = size[n] # s]), n, s, silent))

\* select(node) with a live node (node.source === node); b: selected before
Select ==
  \E n \in TreeNodes :
    /\ ops < MaxOps
    /\ Apply(select(Begin(St, Call("select", n, smSelected, FALSE, 0)), LiveNode(n)))

\* select(node) with a node of the published snapshot
SelectSnapshot ==
  \E q \in SnapPaths(snapshot) :
    /\ ops < MaxOps
    /\ snapshot.source # NoNode
    /\ Apply(select(Begin(St, Call("selectSnapshot", SnapAt(snapshot, q).source,
                                   smSelected, FALSE, 0)),
                    CopyNode(St, q)))

Unselect ==
  /\ ops < MaxOps
  /\ Apply(unselect(Begin(St, Call("unselect", NoNode, NoNode, FALSE, 0))))

Subscribe ==
  \E l \in Listeners :
    /\ ops < MaxOps
    /\ Apply(subscribe(Begin(St, Call("subscribe", l, NoNode, FALSE, 0)), l))

Unsubscribe ==
  \E l \in Range(listeners) :
    /\ ops < MaxOps
    /\ Apply(unsubscribe(Begin(St, Call("unsubscribe", l, NoNode, FALSE, 0)), l))

Next ==
  \/ Add
  \/ Remove
  \/ DeleteSelf
  \/ Replace
  \/ SetPosition
  \/ SetSize
  \/ Select
  \/ SelectSnapshot
  \/ Unselect
  \/ Subscribe
  \/ Unsubscribe

Spec == Init /\ [][Next]_vars

\* ------------------------------------------------------ lookups (SpecFind)
\* The names looked for; last.k is the place of the name in the list.
Names == <<"Model", "Floor", "Room", "Router">>

FindFirstDescendant ==
  \E n \in TreeNodes, k \in DOMAIN Names :
    /\ ops < MaxOps
    /\ Apply(findFirstDescendant(
               Begin(St, Call("findFirstDescendant", n, NoNode, FALSE, k)),
               n, Names[k]))

FindFirstAncestor ==
  \E n \in TreeNodes, k \in DOMAIN Names :
    /\ ops < MaxOps
    /\ Apply(findFirstAncestor(
               Begin(St, Call("findFirstAncestor", n, NoNode, FALSE, k)),
               n, Names[k]))

NextFind == Add \/ FindFirstDescendant \/ FindFirstAncestor

SpecFind == Init /\ [][NextFind]_vars

\* ------------------------------------------------- optimize (SpecOptimize)
\* The layouts optimize is called on: up to three rooms on the floor (none:
\* the first room removed again), each moved and resized through the node
\* API, with or without a Router that was attached by add; a listener is
\* subscribed.  One more layout has a long room beside a unit room two units
\* away, on which the Lloyd loop needs a third round.
RoomPositions == {Origin, <<1, 0, 0, 1>>, <<2 * Scale, 0, 0, 1>>}
RoomSizes == {UnitSize, <<0, 0, 0>>, <<-1, 1, 1>>}
RouterCounts == -1..3

Placed(m, r, p, s) ==
  Then(IF r \in Range(m.children["F1"]) THEN m ELSE add(m, "F1", r, FALSE),
       LAMBDA m1 :
  Then(setPosition(m1, r, p, FALSE), LAMBDA m2 : setSize(m2, r, s, FALSE)))

RoomCounts == 0..3
LongSize == <<4, 1, 1>>

Layout(n, p1, s1, p2, s2, s3, attached) ==
  Then(IF n >= 1 THEN Placed(subscribe(Loaded, "L1"), "R1", p1, s1)
       ELSE remove(subscribe(Loaded, "L1"), "F1", "R1", FALSE), LAMBDA one :
  Then(IF n >= 2 THEN Placed(one, "R2", p2, s2) ELSE one, LAMBDA two :
  Then(IF n >= 3 THEN Placed(two, "R3", Origin, s3) ELSE two, LAMBDA three :
    IF attached THEN add(three, Model, "X1", FALSE) ELSE three)))

InitOptimize ==
  \E n \in RoomCounts, attached \in BOOLEAN,
     p1 \in RoomPositions, s1 \in RoomSizes,
     p2 \in RoomPositions, s2 \in RoomSizes, s3 \in RoomSizes :
    /\ n < 1 => (p1 = Origin /\ s1 = UnitSize)
    /\ n < 2 => (p2 = Origin /\ s2 = UnitSize)
    /\ n < 3 => s3 = UnitSize
    /\ \/ Is(Fresh(Layout(n, p1, s1, p2, s2, s3, attached)))
       \/ /\ n = 2 /\ p1 = Origin /\ s1 = UnitSize
          /\ p2 = <<2 * Scale, 0, 0, 1>> /\ s2 = UnitSize
          /\ Is(Fresh(Layout(n, p1, LongSize, p2, s2, s3, attached)))

Optimize ==
  \E given \in BOOLEAN, k \in RouterCounts :
    /\ ops < MaxOptimize
    /\ given \/ k = 0
    /\ constructed + Len(rooms) <= MaxRouters
    /\ Apply(optimize(Begin(St, Call("optimize", NoNode, NoNode, given, k)), given, k))

NextOptimize == Optimize

SpecOptimize == InitOptimize /\ [][NextOptimize]_vars

\* ------------------------------------------- the JSON converter (SpecJSON)
\* The texts submitted: one JSON.parse rejects, the output of the last toJSON,
\* a model of one floor (height 1) with a room at [2, 0, 2] and a router, a
\* root of a kind the dictionary does not have, and a model with such a node
\* after a room.
Json(name, args, cs) == [name |-> name, args |-> args, children |-> cs]
House ==
  Json("Model", <<>>,
       <<Json("Floor", <<<<"height", Scale>>>>,
              <<Json("Room", <<<<"position", <<2 * Scale, 0, 2 * Scale, 1>>>>>>, <<>>),
                Json("Router", <<>>, <<>>)>>)>>)
Wall == Json("Wall", <<>>, <<>>)
NestedWall ==
  Json("Model", <<>>,
       <<Json("Floor", <<>>, <<Json("Room", <<>>, <<>>), Wall>>)>>)
TextNames == {"syntax", "output", "house", "wall", "nestedWall"}
TextOf(m, name) ==
  IF name = "syntax" THEN Text(FALSE, Wall)
  ELSE IF name = "output" THEN Text(TRUE, m.jsonOutput[1])
  ELSE IF name = "house" THEN Text(TRUE, House)
  ELSE IF name = "wall" THEN Text(TRUE, Wall)
  ELSE Text(TRUE, NestedWall)

\* How many objects of class name building json constructs at most.
RECURSIVE Demand(_, _)
RECURSIVE DemandAll(_, _, _)
DemandAll(cs, name, i) ==
  IF i > Len(cs) THEN 0 ELSE Demand(cs[i], name) + DemandAll(cs, name, i + 1)
Demand(json, name) ==
  (IF json.name = name THEN 1 ELSE 0) + DemandAll(json.children, name, 1)
Fits(m, json) ==
  \A name \in Registered :
    Demand(json, name) + Cardinality(m.made \cap Range(JsonPool(name))) <= MaxMade

FloorHeights == {0, Scale}

InitJSON ==
  \E n \in 1..2, attached \in BOOLEAN, h \in FloorHeights,
     p1 \in RoomPositions, s1 \in RoomSizes :
    Is(Fresh(setPosition(Layout(n, p1, s1, Origin, UnitSize, UnitSize, attached),
                         "F1", <<0, h, 0, 1>>, FALSE)))

ToJSON ==
  /\ ops < MaxOps
  /\ Apply(modelToJSON(Begin(St, Call("toJSON", Model, NoNode, FALSE, 0))))

\* Node.fromJSON(JSON.parse(text)), the node returned kept in last.b
FromJSON ==
  \E name \in TextNames \ {"syntax"} :
    /\ ops < MaxOps
    /\ name = "output" => jsonOutput # <<>>
    /\ Fits(St, TextOf(St, name).value)
    /\ Apply(Then(fromJSON(Begin(St, Call("fromJSON", name, NoNode, FALSE, 0)),
                           TextOf(St, name).value),
                  LAMBDA r : [r.m EXCEPT !.last.b = r.out]))

LoadJSON ==
  \E name \in TextNames :
    /\ ops < MaxOps
    /\ name = "output" => jsonOutput # <<>>
    /\ TextOf(St, name).parses => Fits(St, TextOf(St, name).value)
    /\ Apply(loadJSON(Begin(St, Call("loadJSON", name, NoNode, FALSE, 0)),
                      TextOf(St, name)))

NextJSON == ToJSON \/ FromJSON \/ LoadJSON \/ Select

SpecJSON == InitJSON /\ [][NextJSON]_vars

\* ------------------------------------------- the snapshot (SpecSnapshot)
\* myModel.add(myFloor, true); myFloor.add(myRoom1, true): no snapshot yet
LoadedSilently == add(add(Constructed, Model, "F1", TRUE), "F1", "R1", TRUE)

\* The Model as new Model() leaves it, as the editor loads it, or loaded
\* silently; the calls that read, regenerate or reach into the snapshot.
InitSnapshot ==
  \/ Is(Fresh(Constructed))
  \/ Is(Fresh(Loaded))
  \/ Is(Fresh(LoadedSilently))

\* myModel.getSnapshot(); k: the object returned
GetSnapshot ==
  /\ ops < MaxOps
  /\ Apply(Then(getSnapshot(Begin(St, Call("getSnapshot", Model, NoNode, FALSE, 0))),
                LAMBDA m : [m EXCEPT !.last.k = m.generated]))

SnapshotSetSize ==
  \E q \in SnapPaths(snapshot), s \in SizeInputs, silent \in BOOLEAN :
    /\ ops < MaxOps
    /\ SnapAt(snapshot, q).kind \in {"Floor", "Room"}
    /\ Apply(snapshotSetSize(
               Begin(St, Call("snapshotSetSize", SnapAt(snapshot, q).source,
                              NoNode, silent, 0)), q, s, silent))

SnapshotSetPosition ==
  \E q \in SnapPaths(snapshot), p \in PosInputs, silent \in BOOLEAN :
    /\ ops < MaxOps
    /\ SnapAt(snapshot, q).kind \in {"Floor", "Room", "Router"}
    /\ Apply(snapshotSetPosition(
               Begin(St, Call("snapshotSetPosition", SnapAt(snapshot, q).source,
                              NoNode, silent, 0)), q, p, silent))

NextSnapshot ==
  \/ GetSnapshot
  \/ Subscribe
  \/ Unsubscribe
  \/ Add
  \/ SetSize
  \/ SnapshotSetSize
  \/ SnapshotSetPosition

SpecSnapshot == InitSnapshot /\ [][NextSnapshot]_vars

\* -------------------------------------------------------------- properties
Mutations == {"add", "remove", "setPosition", "setSize"}
ListenerEvents == {i \in 1..Len(trace) : trace[i].ev = "listener"}

(* C1: for any live tree reachable by add / remove / setPosition / setSize,   *)
(* generateSnapshot() on the Model returns, and the tree it returns has the   *)
(* live tree's shape and kinds, every node carrying the attributes of its     *)
(* kind (Floor height, Room position and size, Router position) and having    *)
(* the live node it mirrors as source.                                        *)
SnapshotIsomorphism ==
  /\ ~Cyclic(St, Model)
  /\ Mirrors(generateSnapshot(St, Model), St, Model)

(* C2: at every listener invocation the snapshot getSnapshot() returns        *)
(* mirrors the live tree as it is at that moment, silent mutations included.  *)
ListenersSeeCurrentSnapshot ==
  \A i \in ListenerEvents : trace[i].fresh

\* A listener ran in a call that changed a tree which an earlier call had
\* already changed without the Model being told.
ListenerAfterSilentMutation ==
  /\ ListenerEvents # {}
  /\ last.op \in Mutations
  /\ Range(children["F2"]) # {}
  /\ parent["F2"] = Model
  /\ Len(snapshot.children) = 2

(* C3: a non-silent add, remove, setPosition or changing setSize on a node    *)
(* whose parent chain reaches the Model makes the Model, exactly once and in  *)
(* this order, refresh the cached rooms, regenerate the snapshot and call     *)
(* every listener in registration order.                                      *)
NotifiesOnceInOrder ==
  (/\ last.op \in Mutations
   /\ ~last.silent
   /\ last.changed
   /\ ChainReachesModel(St, last.a))
  => /\ Len(trace) = 2 + Len(listeners)
     /\ trace[1].ev = "refresh"
     /\ trace[2].ev = "snapshot"
     /\ \A i \in 1..Len(listeners) :
          trace[2 + i].ev = "listener" /\ trace[2 + i].l = listeners[i]

(* C4: after any sequence of select and unselect calls, with live or snapshot *)
(* nodes, at most one live node has selected = TRUE, and it is the node the   *)
(* SelectionManager holds.                                                    *)
SelectionExclusive ==
  /\ Cardinality({n \in Nodes : selected[n]}) <= 1
  /\ \A n \in Nodes : selected[n] => smSelected = n

\* A node of the snapshot was selected while another node was selected.
SelectedOverAnother ==
  /\ last.op = "selectSnapshot"
  /\ last.b \notin {NoNode, last.a}
  /\ selected[last.a]
  /\ ~selected[last.b]

(* C5: c is in the children set of p exactly when c.parent is p; add(child)   *)
(* takes a child that has another parent out of that parent's children set.   *)
ParentChildrenConsistent ==
  \A p \in Nodes, c \in Nodes : (c \in Range(children[p])) <=> (parent[c] = p)

(* C6: the live tree has no cycle: no node is below itself.                   *)
Acyclic == \A n \in Nodes : n \notin Below(St, n)

\* optimize(k) as called and as clamped
Requested == IF run.given /\ run.k <= Len(run.rooms) THEN run.k ELSE Len(run.rooms)
Observations == {Obs(i, run.observations[i]) : i \in 1..Len(run.observations)}
Assigned(r) == Range(points[r])
\* the Routers of the manager and every Router the tree holds
LiveRouters == Range(routers) \cup RoutersInTree(St)

(* C7: whenever optimize(k) completes, every observation point is in exactly  *)
(* one Router's assigned set, the sets of distinct Routers are disjoint, and  *)
(* their union is the whole observation set sampled from the cached rooms.    *)
PartitionProperty ==
  (last.op = "optimize" /\ run.completed)
  => /\ \A o \in Observations :
          Cardinality({r \in LiveRouters : o \in Assigned(r)}) = 1
     /\ \A r1 \in LiveRouters, r2 \in LiveRouters :
          r1 # r2 => Assigned(r1) \cap Assigned(r2) = {}
     /\ UNION {Assigned(r) : r \in LiveRouters} = Observations

\* optimize completed with several routers after a point changed its router.
PartitionAfterMove ==
  /\ last.op = "optimize"
  /\ run.completed
  /\ Len(routers) >= 2
  /\ run.moved > 0

(* C8: after optimize(k) completes the live tree holds exactly                *)
(* min(k, roomCount) Router nodes (roomCount when k is omitted), and no       *)
(* Router that was in the tree before the call is still in it.                *)
RouterCountExact ==
  (last.op = "optimize" /\ run.completed /\ Requested >= 0)
  => /\ Cardinality(RoutersInTree(St)) = Requested
     /\ RoutersInTree(St) \cap run.before = {}

(* C9: with at least one room and 1 <= k <= roomCount, optimize(k) raises no  *)
(* error and leaves every Router with a well-defined position.                *)
OptimizeTotal ==
  (/\ last.op = "optimize"
   /\ run.given
   /\ Len(run.rooms) >= 1
   /\ 1 <= run.k
   /\ run.k <= Len(run.rooms))
  => /\ err = "none"
     /\ \A r \in Range(routers) : ~IsNaN(position[r])

(* C10: with at least one room, optimize(k) for k = 0 or k negative clamps to *)
(* a number of routers that is at least 0 and returns without throwing.       *)
OptimizeNonPositive ==
  (last.op = "optimize" /\ run.given /\ run.k <= 0 /\ Len(run.rooms) >= 1)
  => /\ run.routerCount >= 0
     /\ err = "none"
     /\ run.completed

(* C11: optimize on a model with zero rooms creates no routers, returns       *)
(* without error, and its score is not a division by a zero point count.      *)
ZeroRoomsScore ==
  (last.op = "optimize" /\ run.rooms = <<>>)
  => /\ err = "none"
     /\ run.completed
     /\ routers = <<>>
     /\ run.pointCount # 0

(* C12: Serialization round trip.  For a live tree T of Model, Floor, Room *)
(* and Router nodes, Node.fromJSON(T.toJSON()) is a tree of the same shape, *)
(* node kinds and children order as T, with the same Floor height, Room     *)
(* position and size, and Router position.                                  *)
SerializationRoundTrip ==
  (last.op = "fromJSON" /\ last.a = "output" /\ jsonOutput = <<toJSON(St, Model)>>)
  => /\ err = "none"
     /\ last.b # NoNode
     /\ SameTree(St, last.b, Model)

RoundTripOfFurnishedTree ==
  /\ last.op = "fromJSON" /\ last.a = "output"
  /\ jsonOutput = <<toJSON(St, Model)>>
  /\ \E f \in Range(children[Model]) : Kind(f) = "Floor" /\ height[f] # 0
  /\ \E r \in Below(St, Model) :
       Kind(r) = "Room" /\ position[r] # Origin /\ size[r] # UnitSize
  /\ \E x \in Below(St, Model) : Kind(x) = "Router"

\* The live tree: the nodes reachable from the Model, each with its fields.
LiveTree ==
  [n \in Below(St, Model) \cup {Model} |->
     [parent |-> parent[n], children |-> children[n], position |-> position[n],
      size |-> size[n], height |-> height[n], selected |-> selected[n]]]

RemovalClearsSelection ==
  [][((\/ /\ last'.op = "remove"
         /\ last'.b \in Range(children[last'.a])
         /\ last'.b = smSelected
      \/ /\ last'.op = "deleteSelf"
         /\ parent[last'.a] # NoNode
         /\ last'.a = smSelected))
     => /\ smSelected' = NoNode
        /\ ~selected'[smSelected]]_vars

(* C15: select(node) called with a snapshot node marks the live node the   *)
(* snapshot node mirrors (node.source) as selected, never the snapshot     *)
(* copy; the SelectionManager's selected node is always a live node.       *)
SelectResolvesSource ==
  /\ ~smSelectedCopy
  /\ last.op = "selectSnapshot"
     => /\ smSelected = last.a
        /\ selected[last.a]
        /\ \A n \in Nodes \ {last.a} : ~selected[n]

SelectedThroughSnapshot ==
  /\ last.op = "selectSnapshot" /\ err = "none"
  /\ \E s \in SnapNodes(snapshot) : s.source = last.a /\ s.selected
  /\ Kind(last.a) = "Room"
  /\ last.b \notin {NoNode, last.a}

(* C16: replace(node) on the Model removes all of its current children and *)
(* adopts all of node's children, with exactly one notification: the       *)
(* snapshot is regenerated exactly once and each registered listener is    *)
(* invoked exactly once, however many children are removed or adopted.     *)
ReplaceNotifiesOnce ==
  last.op = "replace"
  => /\ Range(children[Model]) = Range(children[last.b])
     /\ \A c \in Range(children[Model]) : parent[c] = Model
     /\ Cardinality({i \in 1..Len(trace) : trace[i].ev = "snapshot"}) = 1
     /\ \A l \in Range(listeners) :
          Cardinality({i \in ListenerEvents : trace[i].l = l}) = 1

SnapshotEvents == {i \in 1..Len(trace) : trace[i].ev = "snapshot"}

(* C17: getSnapshot() returns the snapshot of the most recent regeneration, *)
(* generating one only when none exists yet: two calls with no regeneration *)
(* in between return the identical object, and every regeneration replaces  *)
(* the snapshot with a different object.                                    *)
GetSnapshotReturnsCurrent ==
  [][/\ last'.op = "getSnapshot"
        => /\ last'.k = generated'
           /\ generated # 0 =>
                generated' = generated /\ snapshot' = snapshot /\ SnapshotEvents' = {}
           /\ generated = 0 =>
                generated' = 1 /\ Cardinality(SnapshotEvents') = 1
     /\ generated' = generated + Cardinality(SnapshotEvents')]_vars

\* The listener l is invoked after the regeneration at i of the trace, before
\* the next regeneration.
InvokedAfter(l, i) ==
  \E j \in ListenerEvents :
    /\ j > i
    /\ trace[j].l = l
    /\ \A k \in SnapshotEvents : k > i => j < k

(* C18 as stated: a listener registered with subscribe is invoked after      *)
(* every snapshot regeneration of the Model while it is registered, and is   *)
(* never invoked after its unsubscribe has been called.                      *)
ListenersAfterEveryRegeneration ==
  /\ \A i \in SnapshotEvents : \A l \in Range(listeners) : InvokedAfter(l, i)
  /\ \A j \in ListenerEvents : trace[j].l \in Range(listeners)

(* C18, amended: a listener registered with subscribe is invoked after every *)
(* snapshot regeneration that a re-render of the Model makes while it is     *)
(* registered; the generation getSnapshot() makes when no snapshot exists    *)
(* invokes no listener; a listener is never invoked after its unsubscribe    *)
(* has been called.                                                          *)
ListenersAfterEveryReRender ==
  /\ last.op # "getSnapshot" =>
       \A i \in SnapshotEvents : \A l \in Range(listeners) : InvokedAfter(l, i)
  /\ last.op = "getSnapshot" => ListenerEvents = {}
  /\ \A j \in ListenerEvents : trace[j].l \in Range(listeners)

GeneratedUnderListener ==
  /\ last.op = "getSnapshot"
  /\ listeners # <<>>
  /\ SnapshotEvents # {}
  /\ ListenerEvents = {}

(* C19: in every snapshot generated from a live tree, each Router snapshot  *)
(* node carries the assigned point set and the strength of the live Router  *)
(* it mirrors, as they were when the snapshot was generated.  (The snapshot  *)
(* optimize leaves is generated by its snap, when each Router holds the      *)
(* points of the last assignment of the loop, run.members.)                  *)
SnapshotRoutersCarryPoints ==
  (last.op = "optimize" /\ run.completed /\ run.snapped > 0)
  => \A i \in 1..Len(run.members) :
       \A s \in SnapNodes(snapshot) :
         s.source = routers[i] => s.points = run.members[i] /\ s.strength = strength

(* C20: a published snapshot is never mutated in place.  Once getSnapshot() *)
(* has returned a snapshot or a listener has observed it, no operation of   *)
(* the node API changes the children or the attributes (position, size,     *)
(* height, selected) of any of its nodes: as long as Model.snapshot is the  *)
(* same object, it is the same tree.                                        *)
PublishedSnapshotImmutable ==
  [][((last.op = "getSnapshot" \/ ListenerEvents # {}) /\ generated' = generated)
     => snapshot' = snapshot]_vars

(* C21: whenever optimize is invoked, the OptimizationManager's cached Room *)
(* set equals the set of Room nodes reachable from the Model, after any     *)
(* preceding add / remove / deleteSelf / replace calls, silent or not.      *)
RoomCacheCurrent ==
  last.op \in {"add", "remove", "deleteSelf", "replace"}
  => Range(rooms) = {n \in Below(St, Model) : Kind(n) = "Room"}

\* What an optimize call yields: the routers' positions and assigned points,
\* router by router, and the score (or the exception).
Yield ==
  [positions |-> [i \in 1..Len(routers) |-> position[routers[i]]],
   partition |-> [i \in 1..Len(routers) |-> points[routers[i]]],
   score |-> run.score,
   err |-> err]

IsSelectedExact ==
  /\ \A n \in Nodes :
       isSelected(St, LiveNode(n)) <=> (smSelected # NoNode /\ n = smSelected)
  /\ generated # 0 =>
       \A q \in SnapPaths(snapshot) :
         isSelected(St, CopyNode(St, q))
         <=> (smSelected # NoNode /\ SnapAt(snapshot, q).source = smSelected)

(* C24: the Lloyd loop of optimize always terminates: it executes at least  *)
(* one and at most 10 assignment / update rounds, and stops after the first *)
(* round in which the assignment step makes zero reassignments.             *)
LloydTerminates ==
  last.op = "optimize"
  => /\ run.iter >= 1
     /\ run.iter <= iterCap
     /\ run.quiet <= 1
     /\ run.quiet = 1 => run.stopped = 0
     /\ run.iter < iterCap => run.stopped = 0

LloydRanSeveralRounds ==
  /\ last.op = "optimize" /\ run.completed
  /\ run.iter >= 3
  /\ run.quiet = 1 /\ run.stopped = 0

(* C25: within one optimize call the discretization snap is the only step   *)
(* that notifies the model: disposing of the old routers, seeding the new   *)
(* ones, the Lloyd updates and the final re-assignment regenerate no        *)
(* snapshot and invoke no listener, so a call that returns has made exactly *)
(* one notification round for each router it snapped.                       *)
OnlySnapNotifies ==
  last.op = "optimize" /\ run.completed
  => /\ Cardinality(SnapshotEvents) = run.snapped
     /\ \A l \in Range(listeners) :
          Cardinality({i \in ListenerEvents : trace[i].l = l}) = run.snapped

\* the places in the assigned set of the i-th router that are nearest to its
\* mean of the last update step
Nearest(i) ==
  {j \in 1..Len(run.members[i]) :
     \A h \in 1..Len(run.members[i]) :
       Dist2(run.means[i], run.members[i][j].at)
         <= Dist2(run.means[i], run.members[i][h].at)}
First(S) == CHOOSE j \in S : \A h \in S : j <= h

(* C26: after the snap, each Router's position equals the coordinates of an *)
(* observation point of that Router's assigned set that minimizes the       *)
(* Euclidean distance to the Router's computed mean, the first such point   *)
(* in iteration order on ties.                                              *)
SnapToNearestAssigned ==
  last.op = "optimize"
  => \A i \in 1..run.snapped :
       /\ ~IsNaN(run.means[i])
       /\ Nearest(i) # {}
       /\ LET at == run.members[i][First(Nearest(i))].at
          IN position[routers[i]] = <<at[1], at[2], at[3], 1>>

\* a router snapped away from its mean, onto the first of several nearest
\* points that is not the first point of its set
SnappedOnTie ==
  /\ last.op = "optimize" /\ run.completed
  /\ \E i \in 1..run.snapped :
       /\ Cardinality({run.members[i][j].at : j \in Nearest(i)}) > 1
       /\ First(Nearest(i)) > 1
       /\ position[routers[i]] # run.means[i]

\* the subtree of n in depth-first pre-order: n, then the subtree of each
\* child in turn
RECURSIVE PreOrder(_)
PreOrder(n) ==
  <<n>> \o Flat([i \in 1..Len(children[n]) |-> PreOrder(children[n][i])])

\* the strict ancestors of n, nearest first
Ancestors(n) ==
  SelectSeq([k \in 1..Cardinality(Nodes) |-> Up(St, n, k)],
            LAMBDA x : x # NoNode)

(* C27: findFirstDescendant(name) returns the first node of that name in    *)
(* depth-first pre-order of the subtree (a matching ancestor before any     *)
(* matching node below it), or none when the subtree has no such node;      *)
(* findFirstAncestor(name) returns the nearest strict ancestor of that      *)
(* name, or none.                                                           *)
FindFirstReturns ==
  /\ last.op = "findFirstDescendant"
     => /\ err = "none"
        /\ last.b = find(PreOrder(last.a), Names[last.k])
  /\ last.op = "findFirstAncestor"
     => /\ err = "none"
        /\ last.b = find(Ancestors(last.a), Names[last.k])

(* C28: deleteSelf(silent) honours its silent flag: on a node attached      *)
(* below the Model, deleteSelf(true) detaches the node with no snapshot     *)
(* regeneration and no listener invocation, and deleteSelf(false) makes     *)
(* exactly one notification round; on a node with no parent, deleteSelf     *)
(* changes nothing and notifies nobody.                                     *)
DeleteSelfHonoursSilent ==
  [][last'.op = "deleteSelf"
     => /\ (parent[last'.a] # NoNode /\ ChainReachesModel(St, last'.a))
           => /\ parent'[last'.a] = NoNode
              /\ last'.a \notin Range(children'[parent[last'.a]])
              /\ last'.silent
                 => SnapshotEvents' = {} /\ ListenerEvents' = {}
              /\ ~last'.silent
                 => /\ Cardinality(SnapshotEvents') = 1
                    /\ \A l \in Range(listeners) :
                         Cardinality({i \in ListenerEvents' : trace'[i].l = l}) = 1
        /\ parent[last'.a] = NoNode
           => /\ trace' = <<>>
              /\ UNCHANGED <<parent, children, selected, smSelected, snapshot,
                             generated, rooms, routers, listeners>>]_vars

====
